---------------------------- MODULE Spec2Model ----------------------------
(***************************************************************************)
(* State-machine model of apollo::planning::TrajectoryCost                 *)
(* (modules/planning/tasks/optimizers/road_graph/trajectory_cost.cc).      *)
(*                                                                         *)
(* Fixed-point conventions (all quantities are integers):                  *)
(*   station s, front/back edge, path_resolution        metres             *)
(*   lateral l, left/right edge, lane widths, boxes     centimetres        *)
(*   dl  = dl/ds                                        cm per m (x100)    *)
(*   ddl = d2l/ds2                                      cm per m^2 (x100)  *)
(*   time, eval_time_interval, total time               ticks of 0.1 s     *)
(*   Sigmoid, quasi_softmax, exp                        per mille (x1000)  *)
(*   smoothness_cost                                    1e-4 cost units    *)
(*   safety_cost                                        1e-3 cost units    *)
(* An angle is represented by 100 times its tangent; the reference line of *)
(* the model is straight (heading 0, kappa 0).                             *)
(***************************************************************************)
EXTENDS Integers, Sequences, FiniteSets, TLC

(***************************************************************************)
(* Numeric helpers standing for <cmath>.                                   *)
(***************************************************************************)
Abs(x) == IF x < 0 THEN -x ELSE x

Max(a, b) == IF a >= b THEN a ELSE b

Min(a, b) == IF a <= b THEN a ELSE b

RECURSIVE Pow(_, _)
Pow(b, e) == IF e <= 0 THEN 1 ELSE b * Pow(b, e - 1)

RECURSIVE SqrtBisect(_, _, _)
SqrtBisect(n, lo, hi) ==
    IF hi - lo <= 1 THEN lo
    ELSE LET mid == (lo + hi) \div 2
         IN  IF mid * mid <= n THEN SqrtBisect(n, mid, hi)
                               ELSE SqrtBisect(n, lo, mid)

\* floor(sqrt(n)) for 0 <= n < 46340^2
ISqrt(n) == SqrtBisect(n, 0, 46340)

\* 1000 * exp(zc / 100): 2^q * (1 + f) with y = z * log2(e), q = floor(y),
\* f = y - q, q clamped to -10 .. 9.
ExpMilli(zc) ==
    LET y == (Max(-2000, Min(2000, zc)) * 14427) \div 10000
        q == y \div 100
        f == y % 100
    IN  IF q >= 9 THEN 512 * 1990
        ELSE IF q >= 0 THEN Pow(2, q) * (1000 + 10 * f)
        ELSE IF q >= -10 THEN (1000 + 10 * f) \div Pow(2, -q)
        ELSE 0

\* 1000 * 1 / (1 + exp(-x)), x = xc / 100
Sigmoid(xc) == 1000000 \div (1000 + ExpMilli(-xc))

(***************************************************************************)
(* QuinticPolynomialCurve1d: l(p) = sum a_k p^k, coefficients <<a0..a5>>.  *)
(***************************************************************************)
Evaluate(curve, order, p) ==
    LET a(k) == curve[k + 1]
    IN  CASE order = 0 ->
               a(0) + a(1) * p + a(2) * Pow(p, 2) + a(3) * Pow(p, 3)
                    + a(4) * Pow(p, 4) + a(5) * Pow(p, 5)
          [] order = 1 ->
               a(1) + 2 * a(2) * p + 3 * a(3) * Pow(p, 2)
                    + 4 * a(4) * Pow(p, 3) + 5 * a(5) * Pow(p, 4)
          [] OTHER ->
               2 * a(2) + 6 * a(3) * p + 12 * a(4) * Pow(p, 2)
                    + 20 * a(5) * Pow(p, 3)

(***************************************************************************)
(* ComparableCost: flags combine by OR, scalars by sum.  smoothness_nan    *)
(* records that smoothness_cost is NaN (std::sqrt of a negative number).   *)
(***************************************************************************)
ComparableCost ==
    [has_collision |-> FALSE, out_of_boundary |-> FALSE,
     smoothness_cost |-> 0, smoothness_nan |-> FALSE, safety_cost |-> 0]

AddCost(a, b) ==
    [has_collision   |-> a.has_collision \/ b.has_collision,
     out_of_boundary |-> a.out_of_boundary \/ b.out_of_boundary,
     smoothness_cost |-> a.smoothness_cost + b.smoothness_cost,
     smoothness_nan  |-> a.smoothness_nan \/ b.smoothness_nan,
     safety_cost     |-> a.safety_cost + b.safety_cost]

(***************************************************************************)
(* Box2d and the collaborators of the obstacle and the reference line.     *)
(***************************************************************************)
Box2d(center, heading, length, width) ==
    [center |-> center, heading |-> heading, length |-> length, width |-> width]

\* Gap between two rectangles taken along the axes of the reference line.
DistanceTo(a, b) ==
    LET gx == Max(0, 2 * Abs(a.center.x - b.center.x) - a.length - b.length)
        gy == Max(0, 2 * Abs(a.center.y - b.center.y) - a.width - b.width)
    IN  ISqrt(gx * gx + gy * gy) \div 2

\* Obstacle::GetPointAtTime: the predicted pose at time t (ticks).
GetPointAtTime(ob, t) ==
    [x |-> ob.x0 + ob.vx * t, y |-> ob.y0 + ob.vy * t, theta |-> ob.theta]

\* Obstacle::GetBoundingBox: the obstacle's footprint at a trajectory point.
GetBoundingBox(ob, point) ==
    Box2d([x |-> point.x, y |-> point.y], point.theta, ob.length, ob.width)

\* ReferenceLine::SLToXY on the straight reference line.
SLToXY(sl) == [x |-> 100 * sl.s, y |-> sl.l]

\* SpeedData::TotalTime: the time of the last speed point.
TotalTime(speed) == IF Len(speed) = 0 THEN 0 ELSE speed[Len(speed)].t

\* SpeedData::EvaluateByTime: linear interpolation between the two speed
\* points around t; a time outside the profile leaves the default point.
EvaluateByTime(speed, t) ==
    IF Len(speed) < 2 \/ t < speed[1].t \/ t > speed[Len(speed)].t
    THEN [s |-> 0]
    ELSE LET k == CHOOSE j \in 1 .. Len(speed) - 1 :
                     speed[j].t <= t /\ t <= speed[j + 1].t
             p0 == speed[k]
             p1 == speed[k + 1]
         IN  IF p1.t = p0.t THEN [s |-> p0.s]
             ELSE [s |-> p0.s + ((p1.s - p0.s) * (t - p0.t)) \div (p1.t - p0.t)]


(***************************************************************************)
(* State.  The first seven variables are the constructor's arguments and   *)
(* the process-wide flags, fixed once chosen; the next four are the        *)
(* engine's members and the constructor's position; the last two are the   *)
(* callers of the engine.                                                  *)
(***************************************************************************)
VARIABLES
    config_,                        \* DpPolyPathConfig
    flags,                          \* FLAGS_prediction_total_time, FLAGS_lateral_ignore_buffer
    vehicle_param_,                 \* common::VehicleParam
    reference_line_,                \* lane widths of the reference line
    obstacles,                      \* the constructor's obstacle list
    heuristic_speed_data_,          \* SpeedData: sequence of [t, s]
    init_sl_point_,                 \* ego initial pose [s, l]
    num_of_time_stamps_,
    static_obstacle_sl_boundaries_, \* sequence of SLBoundary
    dynamic_obstacle_boxes_,        \* sequence of sequences of Box2d
    ctor_i,                         \* next obstacle of the constructor's loop
    pending,                        \* per caller: the calls it still makes
    frame                           \* per caller: the locals of its call

inputs == <<config_, flags, vehicle_param_, reference_line_, obstacles,
            heuristic_speed_data_, init_sl_point_>>

members == <<num_of_time_stamps_, static_obstacle_sl_boundaries_,
             dynamic_obstacle_boxes_>>

vars == <<config_, flags, vehicle_param_, reference_line_, obstacles,
          heuristic_speed_data_, init_sl_point_, num_of_time_stamps_,
          static_obstacle_sl_boundaries_, dynamic_obstacle_boxes_, ctor_i,
          pending, frame>>

(***************************************************************************)
(* Constants of the source.                                                *)
(***************************************************************************)
kBuff == 50

kIgnoreDistance == 5

buffer == 10

kOverlapTolerance == 10

kSafeDistance == 60

kRiskWeight == 20

kDynamicObsWeightInv == 1000000

(***************************************************************************)
(* Bounds of the model.                                                    *)
(***************************************************************************)
\* longest obstacle list handed to the constructor
MaxObstacles == 2

\* iterations after which a sampling loop that has not ended is left running
MaxIter == 8

\* callers sharing the engine
NumCallers == 2

Callers == 1 .. NumCallers

(***************************************************************************)
(* Constructor.                                                            *)
(***************************************************************************)
\* lines 47-51
NumOfTimeStamps(speed, fl, cfg) ==
    Min(TotalTime(speed), fl.prediction_total_time) \div cfg.eval_time_interval

\* LateralUnreachable testing the left side only
LateralUnreachableLeftOnly(sl_boundary) ==
    init_sl_point_.l + vehicle_param_.left_edge_to_center
        + flags.lateral_ignore_buffer < sl_boundary.start_l

\* lines 61-68: the obstacle cannot be reached laterally from the initial pose
LateralUnreachable(sl_boundary) ==
    LET adc_left_l  == init_sl_point_.l + vehicle_param_.left_edge_to_center
        adc_right_l == init_sl_point_.l - vehicle_param_.right_edge_to_center
    IN  \/ adc_left_l + flags.lateral_ignore_buffer < sl_boundary.start_l
        \/ adc_right_l - flags.lateral_ignore_buffer > sl_boundary.end_l

\* lines 87-94: the expanded footprint of the obstacle at time step t
ExpandedBoxAt(ob, t) ==
    LET trajectory_point == GetPointAtTime(ob, t * config_.eval_time_interval)
        obstacle_box     == GetBoundingBox(ob, trajectory_point)
    IN  Box2d(obstacle_box.center, obstacle_box.heading,
              obstacle_box.length + kBuff, obstacle_box.width + kBuff)

\* BoxByTime with the loop bound t < num_of_time_stamps_
BoxByTimeShort(ob) ==
    [k \in 1 .. num_of_time_stamps_ |-> ExpandedBoxAt(ob, k - 1)]

\* lines 84-97: for (t = 0; t <= num_of_time_stamps_; ++t) push_back
BoxByTime(ob) ==
    [k \in 1 .. num_of_time_stamps_ + 1 |-> ExpandedBoxAt(ob, k - 1)]

\* lines 70-74
IsBycycleOrPedestrian(ob) == ob.type \in {"BICYCLE", "PEDESTRIAN"}

\* Classify with the virtual test made after the static one
ClassifyVirtualLate(ob) ==
    IF ob.is_ignore THEN "skip"
    ELSE IF ob.has_stop THEN "skip"
    ELSE IF LateralUnreachable(ob.sl_boundary) THEN "skip"
    ELSE IF ob.is_static \/ IsBycycleOrPedestrian(ob) THEN "static"
    ELSE IF ob.is_virtual THEN "skip"
    ELSE "dynamic"

\* lines 54-100: what one iteration of the loop does to the two caches:
\* "skip", "static" or "dynamic"
Classify(ob) ==
    IF ob.is_ignore THEN "skip"
    ELSE IF ob.has_stop THEN "skip"
    ELSE IF LateralUnreachable(ob.sl_boundary) THEN "skip"
    ELSE IF ob.is_virtual THEN "skip"
    ELSE IF ob.is_static \/ IsBycycleOrPedestrian(ob) THEN "static"
    ELSE "dynamic"

Constructed == ctor_i > Len(obstacles)

\* lines 53-101: one iteration of the constructor's loop
CtorObstacle ==
    /\ ctor_i <= Len(obstacles)
    /\ LET ob   == obstacles[ctor_i]
           kind == Classify(ob)
       IN  /\ static_obstacle_sl_boundaries_' =
                 IF kind = "static"
                 THEN Append(static_obstacle_sl_boundaries_, ob.sl_boundary)
                 ELSE static_obstacle_sl_boundaries_
           /\ dynamic_obstacle_boxes_' =
                 IF kind = "dynamic"
                 THEN Append(dynamic_obstacle_boxes_, BoxByTime(ob))
                 ELSE dynamic_obstacle_boxes_
    /\ ctor_i' = ctor_i + 1
    /\ UNCHANGED <<inputs, num_of_time_stamps_, pending, frame>>

(***************************************************************************)
(* Cost helpers.                                                           *)
(***************************************************************************)
\* lines 111-119: (b + exp(-k (x - l0))) / (1 + exp(-k (x - l0)))
quasi_softmax(x) ==
    LET l0 == config_.path_l_cost_param_l0
        b  == config_.path_l_cost_param_b
        k  == config_.path_l_cost_param_k
        e  == ExpMilli((-k * (x - l0)) \div 10)
    IN  (1000 * (b + e)) \div (1000 + e)

\* lines 153-193
IsOffRoad(ref_s, l, dl) ==
    IF ref_s - init_sl_point_.s < kIgnoreDistance THEN FALSE
    ELSE
      LET param == vehicle_param_
          \* twice vec_to_center, in cm
          vx2 == 100 * (param.front_edge_to_center - param.back_edge_to_center)
          vy2 == param.left_edge_to_center - param.right_edge_to_center
          \* twice the y of vec_to_center rotated by atan(dl)
          rcc_y2 == (vx2 * dl + vy2 * 100) \div ISqrt(10000 + dl * dl)
          rear_y2  == 2 * l
          front_y2 == 2 * l + 2 * rcc_y2
          \* twice r = sqrt(r_w^2 + r_l^2)
          r2 == ISqrt((param.left_edge_to_center + param.right_edge_to_center)
                        * (param.left_edge_to_center + param.right_edge_to_center)
                      + (200 * param.back_edge_to_center)
                        * (200 * param.back_edge_to_center))
          left_bound2  == Max(2 * init_sl_point_.l + r2 + 2 * buffer,
                              2 * reference_line_.left_width)
          right_bound2 == Min(2 * init_sl_point_.l - r2 - 2 * buffer,
                              -2 * reference_line_.right_width)
      IN  \/ rear_y2 + r2 + buffer > left_bound2
          \/ rear_y2 - r2 - buffer < right_bound2
          \/ front_y2 + r2 + buffer > left_bound2
          \/ front_y2 - r2 - buffer < right_bound2

\* lines 285-288: ego extents and boundary do not overlap
NoOverlap(adc_front_s, adc_end_s, adc_left_l, adc_right_l, obs) ==
    \/ adc_front_s < obs.start_s
    \/ adc_end_s > obs.end_s
    \/ adc_left_l + kOverlapTolerance < obs.start_l
    \/ adc_right_l - kOverlapTolerance > obs.end_l

\* lines 264-317
GetCostFromObsSL(adc_s, adc_l, obs_sl_boundary) ==
    LET vehicle_param == vehicle_param_
        adc_front_s == adc_s + vehicle_param.front_edge_to_center
        adc_end_s   == adc_s - vehicle_param.back_edge_to_center
        adc_left_l  == adc_l + vehicle_param.left_edge_to_center
        adc_right_l == adc_l - vehicle_param.right_edge_to_center
        no_overlap  == NoOverlap(adc_front_s, adc_end_s, adc_left_l,
                                 adc_right_l, obs_sl_boundary)
        flagged     == [ComparableCost EXCEPT !.has_collision = ~no_overlap]
        delta_l     == Max(adc_right_l - obs_sl_boundary.end_l,
                           obs_sl_boundary.start_l - adc_left_l)
    IN  IF obs_sl_boundary.start_l * obs_sl_boundary.end_l <= 0
        THEN ComparableCost
        ELSE IF \/ adc_left_l + flags.lateral_ignore_buffer
                     < obs_sl_boundary.start_l
                \/ adc_right_l - flags.lateral_ignore_buffer
                     > obs_sl_boundary.end_l
        THEN ComparableCost
        ELSE IF adc_front_s > obs_sl_boundary.end_s
        THEN flagged
        ELSE IF delta_l < kSafeDistance
        THEN [flagged EXCEPT !.safety_cost =
                 config_.obstacle_collision_cost
                   * Sigmoid(config_.obstacle_collision_distance - delta_l)]
        ELSE flagged

\* lines 323-338
GetCostBetweenObsBoxes(ego_box, obstacle_box) ==
    LET distance == DistanceTo(obstacle_box, ego_box)
    IN  IF distance > config_.obstacle_ignore_distance
        THEN ComparableCost
        ELSE [ComparableCost EXCEPT !.safety_cost =
                 config_.obstacle_collision_cost
                   * Sigmoid(config_.obstacle_collision_distance - distance)
                 + kRiskWeight
                   * Sigmoid(config_.obstacle_risk_distance - distance)]

\* lines 343-356, on the straight reference line: theta = atan2(dl, 1)
GetBoxFromSLPoint(sl, dl) ==
    Box2d(SLToXY(sl), dl, vehicle_param_.length, vehicle_param_.width)

(***************************************************************************)
(* A call of Calculate by caller c.  frame[c] holds the arguments, the     *)
(* locals of the three sub-methods and the samples each loop visited.      *)
(***************************************************************************)
NoRequest ==
    [curve |-> <<0, 0, 0, 0, 0, 0>>, start_s |-> 0, end_s |-> 0,
     curr_level |-> 0, total_level |-> 0]

IdleFrame ==
    [pc |-> "idle", req |-> NoRequest, iters |-> 0,
     curve_s |-> 0, path_cost |-> 0, path_nan |-> FALSE,
     cost |-> ComparableCost, path_log |-> <<>>,
     curr_s |-> 0, static_cost |-> ComparableCost, static_log |-> <<>>,
     index |-> 0, time_stamp |-> 0, dynamic_cost |-> ComparableCost,
     dyn_log |-> <<>>,
     total_cost |-> ComparableCost]

\* An evaluation step that moves the static boundaries out of the cache
EvaluationEmptiesStaticCache ==
    /\ static_obstacle_sl_boundaries_' = <<>>
    /\ UNCHANGED <<num_of_time_stamps_, dynamic_obstacle_boxes_>>

\* The evaluation methods assign no member of the engine (lines 106-371).
EvaluationKeepsMembers == UNCHANGED members

\* lines 361-367: entry of Calculate and of CalculatePathCost
Call(c) ==
    /\ Constructed
    /\ frame[c].pc \in {"idle", "returned"}
    /\ pending[c] # <<>>
    /\ frame' = [frame EXCEPT ![c] =
                    [IdleFrame EXCEPT !.pc = "path", !.req = Head(pending[c])]]
    /\ pending' = [pending EXCEPT ![c] = Tail(pending[c])]
    /\ EvaluationKeepsMembers
    /\ UNCHANGED <<inputs, ctor_i>>

\* lines 123-138: the three penalty terms of one sample
PathSampleCost(curve, curve_s) ==
    LET l   == Evaluate(curve, 0, curve_s)
        dl  == Abs(Evaluate(curve, 1, curve_s))
        ddl == Abs(Evaluate(curve, 2, curve_s))
    IN  (l * l * config_.path_l_cost * quasi_softmax(Abs(l))) \div 1000
        + dl * dl * config_.path_dl_cost
        + ddl * ddl * config_.path_ddl_cost

\* lines 129-132
PathSampleOffRoad(req, curve_s) ==
    IsOffRoad(curve_s + req.start_s,
              Evaluate(req.curve, 0, curve_s),
              Abs(Evaluate(req.curve, 1, curve_s)))

\* line 121: the loop condition of CalculatePathCost
PathLoopContinues(f) == f.curve_s < f.req.end_s - f.req.start_s

\* lines 121-139: one iteration of the sampling loop of CalculatePathCost
PathSample(c) ==
    LET f == frame[c] IN
    /\ f.pc = "path"
    /\ PathLoopContinues(f)
    /\ f.iters < MaxIter
    /\ frame' = [frame EXCEPT ![c] =
          [f EXCEPT
             !.path_cost = @ + PathSampleCost(f.req.curve, f.curve_s),
             !.cost = [@ EXCEPT !.out_of_boundary =
                          @ \/ PathSampleOffRoad(f.req, f.curve_s)],
             !.path_log = Append(@, f.curve_s),
             !.curve_s = @ + config_.path_resolution,
             !.iters = @ + 1]]
    /\ EvaluationKeepsMembers
    /\ UNCHANGED <<inputs, ctor_i, pending>>

\* IsTerminalLevel holding at every level
IsTerminalLevelAlways(req) == req.curr_level <= req.total_level

\* line 142
IsTerminalLevel(req) == req.curr_level = req.total_level

\* lines 143-145: twice (end_l - init_l / 2), the argument of std::sqrt
EndOffsetArg2(req) ==
    2 * Evaluate(req.curve, 0, req.end_s - req.start_s) - init_sl_point_.l

\* lines 144-145: sqrt(end_l - init_l / 2) * path_end_l_cost, for arg2 >= 0
EndOffsetCost(req) ==
    10 * ISqrt(EndOffsetArg2(req) * 5000) * config_.path_end_l_cost

\* lines 140-148, 367-368: the loop of CalculatePathCost has ended; its
\* result is added to total_cost and CalculateStaticObstacleCost is entered
PathFinish(c) ==
    LET f        == frame[c]
        scaled   == f.path_cost * config_.path_resolution
        terminal == IsTerminalLevel(f.req)
        nan      == terminal /\ EndOffsetArg2(f.req) < 0
        final    == IF terminal /\ ~nan THEN scaled + EndOffsetCost(f.req)
                    ELSE scaled
        result   == [f.cost EXCEPT !.smoothness_cost = final,
                                   !.smoothness_nan = nan]
    IN
    /\ f.pc = "path"
    /\ ~PathLoopContinues(f)
    /\ frame' = [frame EXCEPT ![c] =
          [f EXCEPT !.pc = "static",
                    !.path_cost = final,
                    !.path_nan = nan,
                    !.cost = result,
                    !.total_cost = AddCost(@, result),
                    !.curr_s = f.req.start_s,
                    !.iters = 0]]
    /\ EvaluationKeepsMembers
    /\ UNCHANGED <<inputs, ctor_i, pending>>

\* lines 208-211: the cost of one sample against every static boundary
RECURSIVE StaticCostAt(_, _, _)
StaticCostAt(curr_s, curr_l, k) ==
    IF k = 0 THEN ComparableCost
    ELSE AddCost(StaticCostAt(curr_s, curr_l, k - 1),
                 GetCostFromObsSL(curr_s, curr_l,
                                  static_obstacle_sl_boundaries_[k]))

\* line 205: the loop condition of CalculateStaticObstacleCost
StaticLoopContinues(f) == f.curr_s <= f.req.end_s

\* lines 205-212: one iteration of the sampling loop
StaticSample(c) ==
    LET f      == frame[c]
        curr_l == Evaluate(f.req.curve, 0, f.curr_s - f.req.start_s)
    IN
    /\ f.pc = "static"
    /\ StaticLoopContinues(f)
    /\ f.iters < MaxIter
    /\ frame' = [frame EXCEPT ![c] =
          [f EXCEPT
             !.static_cost =
                 AddCost(@, StaticCostAt(f.curr_s, curr_l,
                                         Len(static_obstacle_sl_boundaries_))),
             !.static_log = Append(@, [s |-> f.curr_s, l |-> curr_l]),
             !.curr_s = @ + config_.path_resolution,
             !.iters = @ + 1]]
    /\ EvaluationKeepsMembers
    /\ UNCHANGED <<inputs, ctor_i, pending>>

\* lines 213-214, 368-369, 222-225: the static loop has ended; its result is
\* added to total_cost and CalculateDynamicObstacleCost is entered, which
\* returns at once when there is no dynamic obstacle
StaticFinish(c) ==
    LET f      == frame[c]
        result == [f.static_cost EXCEPT
                      !.safety_cost = @ * config_.path_resolution]
    IN
    /\ f.pc = "static"
    /\ ~StaticLoopContinues(f)
    /\ frame' = [frame EXCEPT ![c] =
          [f EXCEPT !.pc = IF dynamic_obstacle_boxes_ = <<>>
                           THEN "returned" ELSE "dynamic",
                    !.static_cost = result,
                    !.total_cost = AddCost(@, result),
                    !.index = 0,
                    !.time_stamp = 0]]
    /\ EvaluationKeepsMembers
    /\ UNCHANGED <<inputs, ctor_i, pending>>

\* lines 236-237
RefS(time_stamp) ==
    EvaluateByTime(heuristic_speed_data_, time_stamp).s + init_sl_point_.s

\* StepDecision leaving the loop at a step before start_s
StepDecisionBreakEarly(ref_s, start_s, end_s) ==
    IF ref_s < start_s THEN "break"
    ELSE IF ref_s > end_s THEN "break"
    ELSE "accumulate"

\* lines 238-243: what the loop does with the step whose ego station is ref_s
StepDecision(ref_s, start_s, end_s) ==
    IF ref_s < start_s THEN "continue"
    ELSE IF ref_s > end_s THEN "break"
    ELSE "accumulate"

\* TrajectoryIndex looking one step ahead
TrajectoryIndexNext(index) == index + 1

\* line 251: the index of the obstacle trajectory compared at loop index
TrajectoryIndex(index) == index

\* lines 250-252: the cost of the ego box against every dynamic obstacle
RECURSIVE DynamicCostAt(_, _, _)
DynamicCostAt(ego_box, index, k) ==
    IF k = 0 THEN ComparableCost
    ELSE AddCost(DynamicCostAt(ego_box, index, k - 1),
                 GetCostBetweenObsBoxes(
                     ego_box,
                     dynamic_obstacle_boxes_[k][TrajectoryIndex(index) + 1]))

\* line 251: vector::at throws when the index is not below the size
AtThrows(index) ==
    \E k \in 1 .. Len(dynamic_obstacle_boxes_) :
        TrajectoryIndex(index) >= Len(dynamic_obstacle_boxes_[k])

\* lines 231-253: one iteration of the time loop
DynamicStep(c) ==
    LET f        == frame[c]
        ref_s    == RefS(f.time_stamp)
        decision == StepDecision(ref_s, f.req.start_s, f.req.end_s)
        s        == ref_s - f.req.start_s
        l        == Evaluate(f.req.curve, 0, s)
        dl       == Evaluate(f.req.curve, 1, s)
        ego_box  == GetBoxFromSLPoint([s |-> ref_s, l |-> l], dl)
        n        == Len(dynamic_obstacle_boxes_)
    IN
    /\ f.pc = "dynamic"
    /\ f.index < num_of_time_stamps_
    /\ frame' = [frame EXCEPT ![c] =
          CASE decision = "continue" ->
                 [f EXCEPT !.index = @ + 1,
                           !.time_stamp = @ + config_.eval_time_interval]
            [] decision = "break" ->
                 [f EXCEPT !.pc = "dynamic_exit"]
            [] OTHER ->
                 IF AtThrows(f.index)
                 THEN [f EXCEPT !.pc = "exception"]
                 ELSE [f EXCEPT
                         !.dynamic_cost =
                             AddCost(@, DynamicCostAt(ego_box, f.index, n)),
                         !.dyn_log = @ \o
                             [k \in 1 .. n |->
                                [step |-> f.index, time |-> f.time_stamp,
                                 obstacle |-> k,
                                 at |-> TrajectoryIndex(f.index),
                                 box |-> dynamic_obstacle_boxes_[k]
                                            [TrajectoryIndex(f.index) + 1]]],
                         !.index = @ + 1,
                         !.time_stamp = @ + config_.eval_time_interval]]
    /\ EvaluationKeepsMembers
    /\ UNCHANGED <<inputs, ctor_i, pending>>

\* lines 255-258, 369-370: the time loop has ended; Calculate returns
DynamicFinish(c) ==
    LET f      == frame[c]
        result == [f.dynamic_cost EXCEPT
                      !.safety_cost =
                          (@ * config_.eval_time_interval)
                              \div (10 * kDynamicObsWeightInv)]
    IN
    /\ \/ f.pc = "dynamic" /\ f.index >= num_of_time_stamps_
       \/ f.pc = "dynamic_exit"
    /\ frame' = [frame EXCEPT ![c] =
          [f EXCEPT !.pc = "returned",
                    !.dynamic_cost = result,
                    !.total_cost = AddCost(@, result)]]
    /\ EvaluationKeepsMembers
    /\ UNCHANGED <<inputs, ctor_i, pending>>

Next ==
    \/ CtorObstacle
    \/ \E c \in Callers : Call(c)
    \/ \E c \in Callers : PathSample(c)
    \/ \E c \in Callers : PathFinish(c)
    \/ \E c \in Callers : StaticSample(c)
    \/ \E c \in Callers : StaticFinish(c)
    \/ \E c \in Callers : DynamicStep(c)
    \/ \E c \in Callers : DynamicFinish(c)

(***************************************************************************)
(* Inputs.                                                                 *)
(***************************************************************************)
Config ==
    [path_resolution |-> 1, eval_time_interval |-> 5,
     path_l_cost |-> 2, path_dl_cost |-> 1, path_ddl_cost |-> 1,
     path_l_cost_param_l0 |-> 150, path_l_cost_param_b |-> 400,
     path_l_cost_param_k |-> 15, path_end_l_cost |-> 1,
     obstacle_collision_cost |-> 10000, obstacle_collision_distance |-> 50,
     obstacle_risk_distance |-> 200, obstacle_ignore_distance |-> 2000]

Flags == [prediction_total_time |-> 50, lateral_ignore_buffer |-> 300]

VehicleParam ==
    [front_edge_to_center |-> 4, back_edge_to_center |-> 1,
     left_edge_to_center |-> 100, right_edge_to_center |-> 100,
     length |-> 500, width |-> 200]

ReferenceLine == [left_width |-> 175, right_width |-> 175]

SLBoundary(start_s, end_s, start_l, end_l) ==
    [start_s |-> start_s, end_s |-> end_s, start_l |-> start_l, end_l |-> end_l]

\* an obstacle standing at its perceived boundary, 4 m long and 2 m wide
StillObstacle(type, is_static, b) ==
    [is_ignore |-> FALSE, has_stop |-> FALSE, is_virtual |-> FALSE,
     is_static |-> is_static, type |-> type, sl_boundary |-> b,
     x0 |-> 50 * (b.start_s + b.end_s), y0 |-> (b.start_l + b.end_l) \div 2,
     vx |-> 0, vy |-> 0, theta |-> 0, length |-> 400, width |-> 200]

\* the same obstacle moving along the reference line at vx cm per tick
MovingObstacle(type, b, vx) == [StillObstacle(type, FALSE, b) EXCEPT !.vx = vx]

Curve(a0, a1, a2, a3) == <<a0, a1, a2, a3, 0, 0>>

Request(curve, start_s, end_s, curr_level, total_level) ==
    [curve |-> curve, start_s |-> start_s, end_s |-> end_s,
     curr_level |-> curr_level, total_level |-> total_level]

SpeedPoint(t, s) == [t |-> t, s |-> s]

\* 2 s of heuristic speed data reaching s1 after 1 s and s2 after 2 s
SpeedData(s1, s2) == <<SpeedPoint(0, 0), SpeedPoint(10, s1), SpeedPoint(20, s2)>>

RECURSIVE SeqsUpTo(_, _)
SeqsUpTo(S, n) ==
    IF n = 0 THEN {<<>>}
    ELSE LET shorter == SeqsUpTo(S, n - 1)
         IN  shorter \cup {Append(q, x) : q \in shorter, x \in S}

\* The state at entry of the constructor's loop (lines 40-51), for inputs
\* drawn from the given sets; Workloads holds pairs of request sequences, for
\* the first and the second caller.
InitOf(Configs, FlagSets, ObstacleLists, Speeds, InitPoints, Workloads) ==
    /\ config_ \in Configs
    /\ flags \in FlagSets
    /\ vehicle_param_ = VehicleParam
    /\ reference_line_ = ReferenceLine
    /\ obstacles \in ObstacleLists
    /\ heuristic_speed_data_ \in Speeds
    /\ init_sl_point_ \in InitPoints
    /\ num_of_time_stamps_ =
           NumOfTimeStamps(heuristic_speed_data_, flags, config_)
    /\ static_obstacle_sl_boundaries_ = <<>>
    /\ dynamic_obstacle_boxes_ = <<>>
    /\ ctor_i = 1
    /\ \E w \in Workloads :
           pending = [c \in Callers |->
                         IF c <= 2 THEN w[c] ELSE <<>>]
    /\ frame = [c \in Callers |-> IdleFrame]

(***************************************************************************)
(* Spec: construction over every obstacle list of the pool, then one call. *)
(***************************************************************************)
ObstaclePool ==
    LET near == SLBoundary(6, 8, 50, 250)
        far  == SLBoundary(6, 8, 450, 650)
        low  == SLBoundary(3, 5, -650, -450)
    IN  { StillObstacle("UNKNOWN", TRUE, near),
          StillObstacle("UNKNOWN", TRUE, far),
          StillObstacle("UNKNOWN", TRUE, low),
          [StillObstacle("UNKNOWN", TRUE, near) EXCEPT !.is_ignore = TRUE],
          [StillObstacle("VEHICLE", FALSE, near) EXCEPT !.has_stop = TRUE],
          [StillObstacle("UNKNOWN", TRUE, near) EXCEPT !.is_virtual = TRUE],
          [MovingObstacle("VEHICLE", near, 50) EXCEPT !.is_virtual = TRUE],
          MovingObstacle("PEDESTRIAN", near, 10),
          MovingObstacle("BICYCLE", SLBoundary(2, 3, -250, -150), 30),
          MovingObstacle("VEHICLE", near, 50),
          MovingObstacle("VEHICLE", far, 50),
          MovingObstacle("UNKNOWN", SLBoundary(1, 5, -300, -120), -20) }

Init ==
    InitOf({Config},
           {Flags, [Flags EXCEPT !.lateral_ignore_buffer = 0],
            [Flags EXCEPT !.prediction_total_time = 12]},
           SeqsUpTo(ObstaclePool, MaxObstacles),
           {SpeedData(3, 7), <<>>},
           {[s |-> 0, l |-> 0], [s |-> 0, l |-> 200]},
           {<<<<Request(Curve(-60, 40, 0, 0), 0, 6, 1, 2)>>, <<>>>>})

Spec == Init /\ [][Next]_vars

(***************************************************************************)
(* Vocabulary of the properties.                                           *)
(***************************************************************************)
\* the obstacles the constructor's loop has gone through
Processed == SubSeq(obstacles, 1, ctor_i - 1)

ExcludedEntirely(ob) == ob.is_ignore \/ ob.has_stop \/ ob.is_virtual

\* the boundary lies beyond the ego's lateral extent about offset l, widened
\* by the lateral ignore buffer
LaterallyFar(b, l) ==
    \/ b.start_l > l + vehicle_param_.left_edge_to_center
                     + flags.lateral_ignore_buffer
    \/ b.end_l < l - vehicle_param_.right_edge_to_center
                   - flags.lateral_ignore_buffer

Qualifies(ob) ==
    ~ExcludedEntirely(ob) /\ ~LaterallyFar(ob.sl_boundary, init_sl_point_.l)

StaticLike(ob) == ob.is_static \/ ob.type \in {"BICYCLE", "PEDESTRIAN"}

GoesToStaticCache(ob) == Qualifies(ob) /\ StaticLike(ob)

GoesToDynamicCache(ob) == Qualifies(ob) /\ ~StaticLike(ob)

\* the boundaries, in input order, of the static-like qualifying obstacles
ExpectedStatic ==
    LET kept == SelectSeq(Processed, GoesToStaticCache)
    IN  [k \in 1 .. Len(kept) |-> kept[k].sl_boundary]

\* the qualifying obstacles that are not static-like, in input order
ExpectedDynamic == SelectSeq(Processed, GoesToDynamicCache)

\* C2: after the constructor has gone through any part of the obstacle list,
\* an ignorable, stopped or virtual obstacle is in neither cache, and every
\* other obstacle passing the lateral-reach filter has exactly one entry in
\* exactly one cache (static if static or BICYCLE/PEDESTRIAN, dynamic
\* otherwise), the entries of each cache in the order of the input list.
C2_CachesPartitionObstacles ==
    /\ static_obstacle_sl_boundaries_ = ExpectedStatic
    /\ Len(dynamic_obstacle_boxes_) = Len(ExpectedDynamic)
    /\ \A k \in 1 .. Len(ExpectedDynamic) :
           /\ dynamic_obstacle_boxes_[k] # <<>>
           /\ dynamic_obstacle_boxes_[k][1].center.x = ExpectedDynamic[k].x0
           /\ dynamic_obstacle_boxes_[k][1].center.y = ExpectedDynamic[k].y0

C2_Witness ==
    /\ Constructed
    /\ Len(obstacles) = 2
    /\ obstacles[1].is_virtual /\ obstacles[1].is_static
    /\ obstacles[2].type = "PEDESTRIAN"
    /\ Len(static_obstacle_sl_boundaries_) = 1
    /\ dynamic_obstacle_boxes_ = <<>>

\* C4: every trajectory of the dynamic cache has num_time_steps + 1 entries,
\* num_time_steps = floor(min(total_time, max prediction time) /
\* eval_time_interval), and entry i is the obstacle's footprint predicted at
\* time i * eval_time_interval, its length and width each enlarged by 0.5.
C4_TrajectoriesTimeAligned ==
    LET num_time_steps ==
            Min(TotalTime(heuristic_speed_data_), flags.prediction_total_time)
                \div config_.eval_time_interval
    IN  /\ Len(dynamic_obstacle_boxes_) = Len(ExpectedDynamic)
        /\ \A k \in 1 .. Len(dynamic_obstacle_boxes_) :
             LET traj == dynamic_obstacle_boxes_[k]
                 ob   == ExpectedDynamic[k]
             IN  /\ Len(traj) = num_time_steps + 1
                 /\ \A i \in 0 .. num_time_steps :
                      LET at == GetPointAtTime(ob, i * config_.eval_time_interval)
                      IN  /\ traj[i + 1].center = [x |-> at.x, y |-> at.y]
                          /\ traj[i + 1].heading = at.theta
                          /\ traj[i + 1].length = ob.length + 50
                          /\ traj[i + 1].width = ob.width + 50

C4_Witness ==
    /\ Constructed
    /\ Len(dynamic_obstacle_boxes_) = 2
    /\ num_of_time_stamps_ = 4
    /\ Len(dynamic_obstacle_boxes_[1]) = 5
    /\ dynamic_obstacle_boxes_[1][5].center.x
           # dynamic_obstacle_boxes_[1][1].center.x

\* C7: a static boundary lying wholly beyond the ego's lateral extent widened
\* by the lateral ignore buffer contributes nothing: measured from the
\* initial lateral offset it is not in the static cache, and measured from a
\* visited sample's lateral offset GetCostFromObsSL returns the zero cost
\* with no flag.
C7_FarObstacleContributesNothing ==
    /\ \A k \in 1 .. Len(static_obstacle_sl_boundaries_) :
           ~LaterallyFar(static_obstacle_sl_boundaries_[k], init_sl_point_.l)
    /\ Len(static_obstacle_sl_boundaries_)
           <= Len(SelectSeq(Processed, Qualifies))
    /\ \A c \in Callers :
         \A n \in 1 .. Len(frame[c].static_log) :
           \A k \in 1 .. Len(static_obstacle_sl_boundaries_) :
             LET smp == frame[c].static_log[n]
                 b   == static_obstacle_sl_boundaries_[k]
             IN  LaterallyFar(b, smp.l) =>
                   GetCostFromObsSL(smp.s, smp.l, b) = ComparableCost

C7_Witness ==
    /\ Constructed
    /\ \E j \in 1 .. Len(obstacles) :
          /\ obstacles[j].is_static /\ ~ExcludedEntirely(obstacles[j])
          /\ LaterallyFar(obstacles[j].sl_boundary, init_sl_point_.l)
    /\ \E c \in Callers :
         /\ frame[c].pc = "returned"
         /\ \E n \in 1 .. Len(frame[c].static_log) :
              \E k \in 1 .. Len(static_obstacle_sl_boundaries_) :
                 LaterallyFar(static_obstacle_sl_boundaries_[k],
                              frame[c].static_log[n].l)

(***************************************************************************)
(* SpecStatic: static boundaries ahead of, beside, behind and across the   *)
(* reference line, sampled by curves near and away from the centre line.   *)
(***************************************************************************)
StaticPool ==
    { StillObstacle("UNKNOWN", TRUE, SLBoundary(2, 4, -100, 100)),
      StillObstacle("UNKNOWN", TRUE, SLBoundary(6, 8, 50, 250)),
      StillObstacle("UNKNOWN", TRUE, SLBoundary(1, 3, -250, -150)),
      StillObstacle("PEDESTRIAN", FALSE, SLBoundary(3, 3, 120, 170)),
      MovingObstacle("VEHICLE", SLBoundary(6, 10, -100, 100), 50) }

StaticRequests ==
    { Request(Curve(0, 0, 0, 0), 0, 6, 1, 2),
      Request(Curve(5, 1, 0, 0), 0, 4, 1, 2),
      Request(Curve(350, 0, 0, 0), 0, 6, 2, 2),
      Request(Curve(-60, 40, 0, 0), 0, 6, 1, 2),
      Request(Curve(0, 0, 5, 0), 2, 7, 2, 2),
      Request(Curve(-200, 0, 0, 1), 1, 6, 1, 2) }

InitStatic ==
    InitOf({Config}, {Flags},
           SeqsUpTo(StaticPool, MaxObstacles),
           {SpeedData(3, 7)},
           {[s |-> 0, l |-> 0]},
           {<<<<r>>, <<>>>> : r \in StaticRequests})

SpecStatic == InitStatic /\ [][Next]_vars

\* the ego extents at sample (s, l) overlap boundary b longitudinally and,
\* within the tolerance of 0.1, laterally
EgoOverlaps(s, l, b) ==
    /\ s + vehicle_param_.front_edge_to_center >= b.start_s
    /\ s - vehicle_param_.back_edge_to_center <= b.end_s
    /\ l + vehicle_param_.left_edge_to_center + 10 >= b.start_l
    /\ l - vehicle_param_.right_edge_to_center - 10 <= b.end_l

StaticCostReturned(c) == frame[c].pc \in {"dynamic", "dynamic_exit", "returned"}

\* C1: when CalculateStaticObstacleCost has returned, if the ego extents at
\* any sample it visited overlapped any boundary of the static cache
\* longitudinally and laterally, the returned cost has has_collision set.
C1_OverlapSetsCollision ==
    \A c \in Callers :
      StaticCostReturned(c) =>
        \A n \in 1 .. Len(frame[c].static_log) :
          \A k \in 1 .. Len(static_obstacle_sl_boundaries_) :
            EgoOverlaps(frame[c].static_log[n].s, frame[c].static_log[n].l,
                        static_obstacle_sl_boundaries_[k])
              => frame[c].static_cost.has_collision

\* C1 restricted to the boundaries that do not reach across the reference
\* line (start_l * end_l > 0)
C1_OverlapSetsCollisionOffCentre ==
    \A c \in Callers :
      StaticCostReturned(c) =>
        \A n \in 1 .. Len(frame[c].static_log) :
          \A k \in 1 .. Len(static_obstacle_sl_boundaries_) :
            LET b == static_obstacle_sl_boundaries_[k]
            IN  /\ b.start_l * b.end_l > 0
                /\ EgoOverlaps(frame[c].static_log[n].s,
                               frame[c].static_log[n].l, b)
                => frame[c].static_cost.has_collision

\* C10: for every visited sample and every cached boundary that ends behind
\* the ego's front edge, GetCostFromObsSL adds no safety cost, and sets
\* has_collision whenever the ego extents overlap the boundary.
C10_BehindStillChecked ==
    \A c \in Callers :
      \A n \in 1 .. Len(frame[c].static_log) :
        \A k \in 1 .. Len(static_obstacle_sl_boundaries_) :
          LET smp == frame[c].static_log[n]
              b   == static_obstacle_sl_boundaries_[k]
              got == GetCostFromObsSL(smp.s, smp.l, b)
          IN  smp.s + vehicle_param_.front_edge_to_center > b.end_s =>
                /\ got.safety_cost = 0
                /\ EgoOverlaps(smp.s, smp.l, b) => got.has_collision

\* C10 restricted to the boundaries that do not reach across the reference
\* line (start_l * end_l > 0)
C10_BehindStillCheckedOffCentre ==
    \A c \in Callers :
      \A n \in 1 .. Len(frame[c].static_log) :
        \A k \in 1 .. Len(static_obstacle_sl_boundaries_) :
          LET smp == frame[c].static_log[n]
              b   == static_obstacle_sl_boundaries_[k]
              got == GetCostFromObsSL(smp.s, smp.l, b)
          IN  /\ b.start_l * b.end_l > 0
              /\ smp.s + vehicle_param_.front_edge_to_center > b.end_s
              => /\ got.safety_cost = 0
                 /\ EgoOverlaps(smp.s, smp.l, b) => got.has_collision

(***************************************************************************)
(* SpecDyn: moving obstacles, speed profiles that advance, stand still or  *)
(* fall back, and segments before, around and after the ego's stations.    *)
(***************************************************************************)
DynamicPool ==
    { MovingObstacle("VEHICLE", SLBoundary(6, 10, -100, 100), 50),
      MovingObstacle("UNKNOWN", SLBoundary(1, 5, -300, -120), -20),
      StillObstacle("UNKNOWN", TRUE, SLBoundary(6, 8, 50, 250)) }

DynamicRequests ==
    { Request(Curve(0, 0, 0, 0), 0, 6, 1, 2),
      Request(Curve(-60, 40, 0, 0), 2, 5, 1, 2),
      Request(Curve(0, 0, 5, 0), 1, 3, 2, 2),
      Request(Curve(20, 0, 0, 0), 3, 8, 1, 2),
      Request(Curve(0, 10, 0, 0), 4, 4, 1, 2) }

InitDyn ==
    InitOf({Config, [Config EXCEPT !.eval_time_interval = 4]},
           {Flags, [Flags EXCEPT !.prediction_total_time = 12]},
           SeqsUpTo(DynamicPool, MaxObstacles),
           {SpeedData(3, 7), SpeedData(6, 2), SpeedData(0, 5), SpeedData(2, 2),
            <<SpeedPoint(0, 0), SpeedPoint(30, 9)>>},
           {[s |-> 0, l |-> 0], [s |-> 1, l |-> 0]},
           {<<<<r>>, <<>>>> : r \in DynamicRequests})

SpecDyn == InitDyn /\ [][Next]_vars

\* C3: the time loop never fails on a trajectory lookup, and at every step i
\* it evaluates, at time i * eval_time_interval, it compares the ego
\* footprint with entry i, and no other, of every cached trajectory: the
\* obstacle's footprint predicted for that same time.
C3_SameTimeIndex ==
    \A c \in Callers :
      /\ frame[c].pc # "exception"
      /\ \A n \in 1 .. Len(frame[c].dyn_log) :
           LET e == frame[c].dyn_log[n]
               traj == dynamic_obstacle_boxes_[e.obstacle]
               ob == ExpectedDynamic[e.obstacle]
           IN  /\ e.step < num_of_time_stamps_
               /\ e.time = e.step * config_.eval_time_interval
               /\ e.at = e.step
               /\ e.at < Len(traj)
               /\ e.box = traj[e.step + 1]
               /\ e.box.center.x = ob.x0 + ob.vx * e.time
               /\ \A k \in 1 .. Len(dynamic_obstacle_boxes_) :
                    \E m \in 1 .. Len(frame[c].dyn_log) :
                       /\ frame[c].dyn_log[m].step = e.step
                       /\ frame[c].dyn_log[m].obstacle = k

C3_Witness ==
    \E c \in Callers :
      /\ frame[c].pc = "returned"
      /\ Len(dynamic_obstacle_boxes_) = 2
      /\ \E n \in 1 .. Len(frame[c].dyn_log) :
           /\ frame[c].dyn_log[n].step = num_of_time_stamps_ - 1
           /\ frame[c].dyn_log[n].step >= 2
           /\ frame[c].dyn_log[n].obstacle = 2

\* the speed profile does not go back in station as time advances
MonotonicSpeed ==
    \A j \in 1 .. Len(heuristic_speed_data_) - 1 :
       /\ heuristic_speed_data_[j].t <= heuristic_speed_data_[j + 1].t
       /\ heuristic_speed_data_[j].s <= heuristic_speed_data_[j + 1].s

\* the steps of the loop range whose ego station lies in [start_s, end_s]
StepsInRange(req) ==
    { i \in 0 .. num_of_time_stamps_ - 1 :
        LET ref_s == EvaluateByTime(heuristic_speed_data_,
                                    i * config_.eval_time_interval).s
                     + init_sl_point_.s
        IN  req.start_s <= ref_s /\ ref_s <= req.end_s }

\* the (step, obstacle) pairs for which a penalty was accumulated
Accumulated(c) ==
    { <<frame[c].dyn_log[n].step, frame[c].dyn_log[n].obstacle>> :
         n \in 1 .. Len(frame[c].dyn_log) }

\* C9 without its premise: when Calculate has returned, a penalty was
\* accumulated, against every cached dynamic obstacle, at exactly the steps
\* of the loop range whose ego station lies in [start_s, end_s].
C9_AccumulatedIsInRange ==
    \A c \in Callers :
      frame[c].pc = "returned" =>
        Accumulated(c) = StepsInRange(frame[c].req)
                           \X (1 .. Len(dynamic_obstacle_boxes_))

\* C9: for a speed profile monotonic non-decreasing in station, the early
\* termination loses nothing: the penalty is accumulated at exactly the
\* steps whose ego station lies in [start_s, end_s].
C9_EarlyStopLosesNothing == MonotonicSpeed => C9_AccumulatedIsInRange

C9_Witness ==
    \E c \in Callers :
      /\ frame[c].pc = "returned"
      /\ MonotonicSpeed
      /\ dynamic_obstacle_boxes_ # <<>>
      /\ \E i, j, k \in 0 .. num_of_time_stamps_ - 1 :
           /\ i < j /\ j < k
           /\ RefS(i * config_.eval_time_interval) < frame[c].req.start_s
           /\ <<j, 1>> \in Accumulated(c)
           /\ RefS(k * config_.eval_time_interval) > frame[c].req.end_s

(***************************************************************************)
(* SpecPath: the same curve and segment evaluated by two callers, one at   *)
(* the terminal level and one below it.                                    *)
(***************************************************************************)
PathCurves ==
    { Curve(0, 0, 0, 0), Curve(30, 0, 0, 0), Curve(-60, 40, 0, 0),
      Curve(0, 0, 5, 0), Curve(-200, 0, 0, 1), Curve(-40, -10, 0, 0) }

PathSegments == { <<0, 6>>, <<2, 5>>, <<4, 4>>, <<5, 7>> }

InitPath ==
    InitOf({Config, [Config EXCEPT !.path_resolution = 2]},
           {Flags},
           { <<>>,
             << StillObstacle("UNKNOWN", TRUE, SLBoundary(6, 8, 50, 250)),
                MovingObstacle("VEHICLE", SLBoundary(6, 10, -100, 100), 50) >> },
           {SpeedData(3, 7)},
           {[s |-> 0, l |-> 0], [s |-> 0, l |-> 40]},
           { << <<Request(cv, sg[1], sg[2], 2, 2)>>,
                <<Request(cv, sg[1], sg[2], 1, 2)>> >> :
                cv \in PathCurves, sg \in PathSegments })

SpecPath == InitPath /\ [][Next]_vars

\* the sum of the sample penalties over the grid 0, r, 2r, ... below
\* end_s - start_s, r = path_resolution > 0, from sample number k on
RECURSIVE SampleSumFrom(_, _)
SampleSumFrom(req, k) ==
    IF k * config_.path_resolution >= req.end_s - req.start_s THEN 0
    ELSE PathSampleCost(req.curve, k * config_.path_resolution)
           + SampleSumFrom(req, k + 1)

PathCostReturned(c) == frame[c].pc \notin {"idle", "path"}

\* C8: CalculatePathCost returns, at a level other than the terminal one,
\* exactly the sample sum times the resolution; at the terminal level it
\* adds the end-offset term (or yields NaN for a negative argument of sqrt);
\* at either level it leaves has_collision false and safety_cost zero, and
\* two calls that differ in level only agree on out_of_boundary.
C8_EndOffsetAtTerminalLevelOnly ==
    /\ \A c \in Callers :
         PathCostReturned(c) =>
           LET req == frame[c].req
               got == frame[c].cost
               integral == SampleSumFrom(req, 0) * config_.path_resolution
               end_l == Evaluate(req.curve, 0, req.end_s - req.start_s)
           IN  /\ req.curr_level # req.total_level =>
                     /\ got.smoothness_cost = integral
                     /\ ~got.smoothness_nan
               /\ req.curr_level = req.total_level =>
                     IF 2 * end_l - init_sl_point_.l < 0
                     THEN got.smoothness_nan
                     ELSE /\ ~got.smoothness_nan
                          /\ got.smoothness_cost = integral + EndOffsetCost(req)
               /\ ~got.has_collision
               /\ got.safety_cost = 0
    /\ \A c, d \in Callers :
         /\ PathCostReturned(c) /\ PathCostReturned(d)
         /\ frame[c].req.curve = frame[d].req.curve
         /\ frame[c].req.start_s = frame[d].req.start_s
         /\ frame[c].req.end_s = frame[d].req.end_s
         => frame[c].cost.out_of_boundary = frame[d].cost.out_of_boundary

C8_Witness ==
    \E c, d \in Callers :
      /\ frame[c].pc = "returned" /\ frame[d].pc = "returned"
      /\ frame[c].req.curr_level = frame[c].req.total_level
      /\ frame[d].req.curr_level # frame[d].req.total_level
      /\ frame[c].req.curve = frame[d].req.curve
      /\ frame[d].cost.smoothness_cost > 0
      /\ frame[c].cost.smoothness_cost > frame[d].cost.smoothness_cost
      /\ frame[c].cost.out_of_boundary

(***************************************************************************)
(* SpecCalc: well-formed calls next to calls with start_s > end_s and      *)
(* configurations with a negative sample resolution.                       *)
(***************************************************************************)
CalcRequests ==
    { Request(Curve(0, 0, 0, 0), 0, 6, 1, 2),
      Request(Curve(30, 10, 0, 0), 5, 2, 2, 2),
      Request(Curve(-60, 40, 0, 0), 3, 3, 1, 2),
      Request(Curve(0, 0, 5, 0), 4, 1, 1, 2) }

InitCalc ==
    InitOf({Config, [Config EXCEPT !.path_resolution = -1]},
           {Flags},
           SeqsUpTo(DynamicPool, MaxObstacles),
           {SpeedData(3, 7)},
           {[s |-> 0, l |-> 0]},
           {<<<<r>>, <<>>>> : r \in CalcRequests})

SpecCalc == InitCalc /\ [][Next]_vars

\* the call of caller c breaks the contract of Calculate
ContractViolation(c) ==
    /\ frame[c].pc # "idle"
    /\ \/ frame[c].req.start_s > frame[c].req.end_s
       \/ config_.path_resolution < 0

\* a sampling loop of caller c has run MaxIter times and goes on
RunsOn(c) ==
    /\ frame[c].iters >= MaxIter
    /\ \/ frame[c].pc = "path" /\ PathLoopContinues(frame[c])
       \/ frame[c].pc = "static" /\ StaticLoopContinues(frame[c])

\* C5: a call with start_s > end_s or with a negative sample resolution is
\* rejected: it never returns a cost, and none of its loops runs on.
C5_ViolationsRejected ==
    \A c \in Callers :
      ContractViolation(c) => frame[c].pc # "returned" /\ ~RunsOn(c)

\* a call within the contract never reaches the iteration bound of the model
WellFormedCallsTerminate ==
    \A c \in Callers : RunsOn(c) => config_.path_resolution <= 0

(***************************************************************************)
(* SpecShared: two callers evaluating on one engine, their steps           *)
(* interleaved in every order.                                             *)
(***************************************************************************)
SharedRequests ==
    { Request(Curve(0, 0, 0, 0), 0, 3, 1, 2),
      Request(Curve(-60, 40, 0, 0), 2, 4, 2, 2),
      Request(Curve(150, 0, 5, 0), 1, 3, 2, 2) }

InitShared ==
    InitOf({Config}, {Flags},
           { <<>>,
             << StillObstacle("UNKNOWN", TRUE, SLBoundary(3, 5, 50, 250)),
                MovingObstacle("VEHICLE", SLBoundary(6, 10, -100, 100), 50) >> },
           {SpeedData(3, 7)},
           {[s |-> 0, l |-> 0]},
           { << <<a, b>>, <<d>> >> :
                a \in SharedRequests, b \in SharedRequests, d \in SharedRequests })

SpecShared == InitShared /\ [][Next]_vars

\* CalculatePathCost run on its own (path_resolution > 0)
PathCostAlone(req) ==
    LET n == IF req.end_s <= req.start_s THEN 0
             ELSE (req.end_s - req.start_s + config_.path_resolution - 1)
                      \div config_.path_resolution
        integral == SampleSumFrom(req, 0) * config_.path_resolution
        nan == req.curr_level = req.total_level /\ EndOffsetArg2(req) < 0
    IN  [ComparableCost EXCEPT
           !.out_of_boundary =
               \E k \in 0 .. n - 1 :
                  PathSampleOffRoad(req, k * config_.path_resolution),
           !.smoothness_nan = nan,
           !.smoothness_cost =
               IF req.curr_level = req.total_level /\ ~nan
               THEN integral + EndOffsetCost(req) ELSE integral]

RECURSIVE StaticSumFrom(_, _)
StaticSumFrom(req, curr_s) ==
    IF curr_s > req.end_s THEN ComparableCost
    ELSE AddCost(StaticCostAt(curr_s,
                              Evaluate(req.curve, 0, curr_s - req.start_s),
                              Len(static_obstacle_sl_boundaries_)),
                 StaticSumFrom(req, curr_s + config_.path_resolution))

\* CalculateStaticObstacleCost run on its own (path_resolution > 0)
StaticCostAlone(req) ==
    LET sum == StaticSumFrom(req, req.start_s)
    IN  [sum EXCEPT !.safety_cost = @ * config_.path_resolution]

RECURSIVE DynamicSumFrom(_, _)
DynamicSumFrom(req, index) ==
    LET ref_s == RefS(index * config_.eval_time_interval)
        s     == ref_s - req.start_s
        ego   == GetBoxFromSLPoint(
                    [s |-> ref_s, l |-> Evaluate(req.curve, 0, s)],
                    Evaluate(req.curve, 1, s))
    IN  IF index >= num_of_time_stamps_ THEN ComparableCost
        ELSE IF ref_s < req.start_s THEN DynamicSumFrom(req, index + 1)
        ELSE IF ref_s > req.end_s THEN ComparableCost
        ELSE AddCost(DynamicCostAt(ego, index, Len(dynamic_obstacle_boxes_)),
                     DynamicSumFrom(req, index + 1))

\* CalculateDynamicObstacleCost run on its own
DynamicCostAlone(req) ==
    IF dynamic_obstacle_boxes_ = <<>> THEN ComparableCost
    ELSE LET sum == DynamicSumFrom(req, 0)
         IN  [sum EXCEPT !.safety_cost =
                 (@ * config_.eval_time_interval)
                     \div (10 * kDynamicObsWeightInv)]

\* Calculate run on its own
CalculateAlone(req) ==
    AddCost(AddCost(PathCostAlone(req), StaticCostAlone(req)),
            DynamicCostAlone(req))

\* every sub-method that has returned in caller c returned what it returns
\* when run on its own
ReturnsAsAlone(c) ==
    LET f == frame[c] IN
    /\ PathCostReturned(c) => f.cost = PathCostAlone(f.req)
    /\ StaticCostReturned(c) => f.static_cost = StaticCostAlone(f.req)
    /\ f.pc = "returned" =>
          /\ f.dynamic_cost = DynamicCostAlone(f.req)
          /\ f.total_cost = CalculateAlone(f.req)

\* C6: once constructed, no step of any evaluation call changes the caches,
\* num_of_time_stamps_, the initial pose or the borrowed collaborators, and
\* in every interleaving each call returns the cost it returns when run on
\* its own.
C6_EvaluationLeavesEngineUnchanged ==
    /\ [][Constructed => UNCHANGED <<members, inputs>>]_vars
    /\ [](\A c \in Callers : ReturnsAsAlone(c))

C6_Witness ==
    /\ static_obstacle_sl_boundaries_ # <<>>
    /\ dynamic_obstacle_boxes_ # <<>>
    /\ pending[1] = <<>>
    /\ frame[1].pc = "returned" /\ frame[2].pc = "returned"
    /\ frame[1].req # frame[2].req
    /\ frame[1].total_cost.safety_cost > 0
    /\ frame[2].total_cost.has_collision

=============================================================================
